---- MODULE Spec2Model ----
(***************************************************************************)
(* The FCM request builder of src/src/message/mod.rs: FCMRequestBuilder    *)
(* (new, new_multi, the ten setters, finalize), the serde serialization of *)
(* MessageBody / Message, and the single send of the finalized request.    *)
(*                                                                         *)
(* Option<T> is a sequence of length at most one: None is <<>>, Some(v) is *)
(* <<v>>.  A moved-out binding (the builder after finalize(self), the      *)
(* request after send) is None.  A JSON object is a function from its keys *)
(* to its values.                                                          *)
(***************************************************************************)
EXTENDS Integers, Sequences, FiniteSets, TLC

VARIABLES
    builder,    \* Option<FCMRequestBuilder>: the caller's builder binding
    request,    \* Option<FCMRequest>: the value finalize returned
    ret,        \* what the most recent builder call returned: "Ok" or an error
    wire,       \* Option<JSON>: the body posted by send
    result,     \* Option<Result>: what send returned
    sends,      \* number of send calls made
    ctor,       \* Option<arguments of the constructor call>
    given,      \* field -> Option<argument last stored for it by a call>
    overwrote,  \* the most recent setter replaced a different, present value
    calls       \* number of setter calls made on the builder

vars == <<builder, request, ret, wire, result, sends, ctor, given, overwrote, calls>>

----------------------------------------------------------------------------
(* Bounds of the exploration *)

\* setter calls explored after a constructor, for every choice of arguments
MaxCalls == 2

\* longest registration-id slice handed to new_multi / registration_ids
MaxIds == 2

----------------------------------------------------------------------------
(* Option *)

None == <<>>

Some(v) == <<v>>

unwrap_or(o, d) == IF o = None THEN d ELSE o[1]

----------------------------------------------------------------------------
(* Argument values, taken from tests.rs, the doc comments and the example *)

ApiKey == "api_key"

Project == "project"

Token == "token"

Flags == {None, Some(TRUE), Some(FALSE)}

RegIds == {"one", "two"}

IdSlices == UNION {[1..n -> RegIds] : n \in 0..MaxIds}

CollapseKeys == {"foo", "key"}

Priorities == {"Normal", "High"}

TimesToLive == {420, 10}

PackageNames == {"pkg", "name"}

\* struct CustomData { foo: "bar", bar: false }
CustomData == [kind |-> "struct", fields |-> [foo |-> "bar", bar |-> FALSE]]

\* HashMap<&str, &str> { "message": "Howdy!" }
HowdyMap == [kind |-> "map", entries |-> {<<[str |-> "message"], "Howdy!">>}]

\* HashMap<(i32, i32), &str>: a map whose keys are not strings
TupleKeyMap == [kind |-> "map", entries |-> {<<[tuple |-> <<1, 2>>], "x">>}]

\* a type whose Serialize implementation returns Err(custom("boom"))
FailingSerialize == [kind |-> "custom", error |-> "boom"]

DataInputs == {CustomData, HowdyMap, TupleKeyMap, FailingSerialize}

----------------------------------------------------------------------------
(* Notification (crate::notification) *)

NotificationFields ==
    {"title", "body", "icon", "sound", "badge", "tag", "color", "click_action",
     "body_loc_key", "body_loc_args", "title_loc_key", "title_loc_args"}

\* NotificationBuilder::new().finalize()
EmptyNotification == [f \in NotificationFields |-> None]

\* NotificationBuilder::new() with title("Hey!") and body(...), finalized
HeyNotification ==
    [EmptyNotification EXCEPT !.title = Some("Hey!"),
                              !.body = Some("Do you want to catch up later?")]

Notifications == {EmptyNotification, HeyNotification}

\* Notification serializes with the same omit-if-absent rule as Message
SerializeNotification(n) ==
    [k \in {f \in NotificationFields : n[f] # None} |-> n[k][1]]

----------------------------------------------------------------------------
(* Message, MessageBuilder *)

MessageFields ==
    {"collapse_key", "content_available", "data", "delay_while_idle",
     "notification", "priority", "registration_ids", "restricted_package_name",
     "time_to_live", "topic", "mutable_content"}

\* &'a str -> Cow<'a, str>: a.as_ref().into()
into(s) == [Borrowed |-> s]

\* Cow<str> as a string slice
as_str(c) == c.Borrowed

\* ids.iter().map(|a| a.as_ref().into()).collect()
collect_reversed(ids) == [i \in 1..Len(ids) |-> into(ids[Len(ids) + 1 - i])]

collect(ids) == [i \in 1..Len(ids) |-> into(ids[i])]

\* serde_json::to_value(data): Ok(Value) or Err(serde_json::Error)
to_value(data) ==
    CASE data.kind = "struct" -> [ok |-> TRUE, value |-> data.fields]
      [] data.kind = "map" ->
            IF \E e \in data.entries : "str" \notin DOMAIN e[1]
            THEN [ok |-> FALSE, error |-> "key must be a string"]
            ELSE [ok |-> TRUE,
                  value |-> [k \in {e[1].str : e \in data.entries} |->
                                (CHOOSE e \in data.entries : e[1].str = k)[2]]]
      [] data.kind = "custom" -> [ok |-> FALSE, error |-> data.error]

----------------------------------------------------------------------------
(* FCMRequestBuilder *)

NoFields == [f \in MessageFields |-> None]

new(api_key, project, topic, validate_only) ==
    [api_key |-> api_key, project |-> project, validate_only |-> validate_only,
     message |-> [NoFields EXCEPT !.topic = Some(topic)]]

new_multi(api_key, project, ids, validate_only) ==
    LET converted == collect(ids)
    IN  [api_key |-> api_key, project |-> project, validate_only |-> validate_only,
         message |-> [NoFields EXCEPT !.registration_ids = Some(converted)]]

registration_ids_clears_topic(self, ids) ==
    LET converted == collect(ids)
    IN  [self EXCEPT !.message.registration_ids = Some(converted),
                     !.message.topic = None]

registration_ids(self, ids) ==
    LET converted == collect(ids)
    IN  [self EXCEPT !.message.registration_ids = Some(converted)]

collapse_key_keep_first(self, key) ==
    IF self.message.collapse_key = None
    THEN [self EXCEPT !.message.collapse_key = Some(key)]
    ELSE self

collapse_key(self, key) == [self EXCEPT !.message.collapse_key = Some(key)]

priority(self, p) == [self EXCEPT !.message.priority = Some(p)]

content_available(self, b) == [self EXCEPT !.message.content_available = Some(b)]

delay_while_idle(self, b) == [self EXCEPT !.message.delay_while_idle = Some(b)]

time_to_live(self, seconds) == [self EXCEPT !.message.time_to_live = Some(seconds)]

restricted_package_name(self, name) ==
    [self EXCEPT !.message.restricted_package_name = Some(name)]

data_clears_on_error(self, d) ==
    LET v == to_value(d)
    IN  IF v.ok
        THEN [ok |-> TRUE, self |-> [self EXCEPT !.message.data = Some(v.value)]]
        ELSE [ok |-> FALSE, error |-> v.error,
              self |-> [self EXCEPT !.message.data = None]]

\* self.message.data = Some(serde_json::to_value(data)?); Ok(self)
\* `?` returns the error before the assignment is made
data(self, d) ==
    LET v == to_value(d)
    IN  IF v.ok
        THEN [ok |-> TRUE, self |-> [self EXCEPT !.message.data = Some(v.value)]]
        ELSE [ok |-> FALSE, error |-> v.error, self |-> self]

notification(self, n) == [self EXCEPT !.message.notification = Some(n)]

mutable_content_sets_content_available(self, b) ==
    [self EXCEPT !.message.mutable_content = Some(b),
                 !.message.content_available = Some(b)]

mutable_content(self, b) == [self EXCEPT !.message.mutable_content = Some(b)]

\* the FCMRequest built from the builder's fields
FCMRequest(self, validate_only) ==
    [api_key |-> self.api_key,
     project |-> self.project,
     body |-> [message |-> [f \in MessageFields |-> self.message[f]],
               validate_only |-> validate_only]]

finalize_dry_run(self) ==
    [request |-> FCMRequest(self, unwrap_or(self.validate_only, TRUE)), self |-> None]

finalize_drops_data(self) ==
    [request |-> FCMRequest([self EXCEPT !.message.data = None],
                            unwrap_or(self.validate_only, FALSE)),
     self |-> None]

finalize_by_ref(self) ==
    [request |-> FCMRequest(self, unwrap_or(self.validate_only, FALSE)),
     self |-> Some(self)]

\* finalize(self) -> FCMRequest: `request` is the value returned, `self` is what
\* the caller's binding holds afterwards (the builder is taken by value: moved)
finalize(self) ==
    [request |-> FCMRequest(self, unwrap_or(self.validate_only, FALSE)), self |-> None]

----------------------------------------------------------------------------
(* Serialization: #[derive(Serialize)] on Priority, Message, MessageBody *)

Null == [null |-> TRUE]

SerializePriority_verbatim(p) == p

\* #[serde(rename_all = "lowercase")]
SerializePriority(p) ==
    CASE p = "Normal" -> "normal"
      [] p = "High" -> "high"

SerializeField(f, v) ==
    CASE f = "priority" -> SerializePriority(v)
      [] f = "registration_ids" -> [i \in 1..Len(v) |-> as_str(v[i])]
      [] f = "notification" -> SerializeNotification(v)
      [] OTHER -> v

SerializeMessage_nulls(m) ==
    [k \in MessageFields |-> IF m[k] = None THEN Null ELSE SerializeField(k, m[k][1])]

\* every field carries #[serde(skip_serializing_if = "Option::is_none")]
SerializeMessage(m) ==
    [k \in {f \in MessageFields : m[f] # None} |-> SerializeField(k, m[k][1])]

SerializeBody(b) ==
    [validate_only |-> b.validate_only, message |-> SerializeMessage(b.message)]

----------------------------------------------------------------------------
(* Client::send (crate::client) *)

Responses ==
    {<<"http", 200, "json">>, <<"http", 200, "garbage">>,
     <<"http", 400, "error">>, <<"http", 500, "error">>, <<"transport">>}

\* one POST of the serialized body; the outcome follows the response
send(req, response) ==
    [posted |-> SerializeBody(req.body),
     result |->
        CASE response[1] = "transport" -> <<"TransportError">>
          [] response[1] = "http" /\ response[2] # 200 ->
                <<"HttpError", response[2], response[3]>>
          [] response[1] = "http" /\ response[2] = 200 /\ response[3] = "json" ->
                <<"Ok", "Response">>
          [] OTHER -> <<"ResponseParseError">>]

----------------------------------------------------------------------------
(* The caller: one constructor, setter calls, finalize, send *)

\* should_be_able_to_render_a_full_message_to_json: the setter calls, in order
FullMessageTest ==
    << <<"registration_ids", <<"one", "two">>>>,
       <<"collapse_key", "foo">>,
       <<"priority", "High">>,
       <<"content_available", FALSE>>,
       <<"delay_while_idle", TRUE>>,
       <<"time_to_live", 420>>,
       <<"restricted_package_name", "pkg">>,
       <<"notification", EmptyNotification>> >>

\* the arguments stored so far by the first k calls of FullMessageTest
GivenByTest(k) ==
    [f \in MessageFields |->
        IF f = "topic" THEN Some(Token)
        ELSE IF \E i \in 1..k : FullMessageTest[i][1] = f
             THEN Some(FullMessageTest[CHOOSE i \in 1..k : FullMessageTest[i][1] = f][2])
             ELSE None]

\* the calls made so far are the first `calls` calls of FullMessageTest
InFullMessageTest ==
    /\ ctor # None
    /\ ctor[1].kind = "new"
    /\ ctor[1].validate_only = None
    /\ calls <= Len(FullMessageTest)
    /\ ret = "Ok"
    /\ ~overwrote
    /\ given = GivenByTest(calls)

\* the exploration makes every sequence of at most MaxCalls setter calls, and
\* the calls of FullMessageTest to the end
MayCall(op, arg) ==
    \/ calls < MaxCalls
    \/ /\ InFullMessageTest
       /\ calls < Len(FullMessageTest)
       /\ FullMessageTest[calls + 1][1] = op
       /\ FullMessageTest[calls + 1][2] = arg

Init ==
    /\ builder = None
    /\ request = None
    /\ ret = "Ok"
    /\ wire = None
    /\ result = None
    /\ sends = 0
    /\ ctor = None
    /\ given = [f \in MessageFields |-> None]
    /\ overwrote = FALSE
    /\ calls = 0

CallNew ==
    /\ ctor = None
    /\ \E validate_only \in Flags :
        /\ builder' = Some(new(ApiKey, Project, Token, validate_only))
        /\ ctor' = Some([kind |-> "new", api_key |-> ApiKey, project |-> Project,
                         validate_only |-> validate_only])
    /\ given' = [given EXCEPT !.topic = Some(Token)]
    /\ UNCHANGED <<request, ret, wire, result, sends, overwrote, calls>>

CallNewMulti ==
    /\ ctor = None
    /\ \E ids \in IdSlices, validate_only \in Flags :
        /\ builder' = Some(new_multi(ApiKey, Project, ids, validate_only))
        /\ ctor' = Some([kind |-> "new_multi", api_key |-> ApiKey,
                         project |-> Project, validate_only |-> validate_only])
        /\ given' = [given EXCEPT !.registration_ids = Some(ids)]
    /\ UNCHANGED <<request, ret, wire, result, sends, overwrote, calls>>

\* a setter call that returned: field f was given arg, the builder is now b
Returned(f, arg, b) ==
    /\ builder' = Some(b)
    /\ ret' = "Ok"
    /\ given' = [given EXCEPT ![f] = Some(arg)]
    /\ overwrote' = (given[f] # None /\ given[f] # Some(arg))
    /\ calls' = calls + 1
    /\ UNCHANGED <<request, wire, result, sends, ctor>>

CallRegistrationIds ==
    /\ builder # None
    /\ \E ids \in IdSlices :
        /\ MayCall("registration_ids", ids)
        /\ Returned("registration_ids", ids, registration_ids(builder[1], ids))

CallCollapseKey ==
    /\ builder # None
    /\ \E key \in CollapseKeys :
        /\ MayCall("collapse_key", key)
        /\ Returned("collapse_key", key, collapse_key(builder[1], key))

CallPriority ==
    /\ builder # None
    /\ \E p \in Priorities :
        /\ MayCall("priority", p)
        /\ Returned("priority", p, priority(builder[1], p))

CallContentAvailable ==
    /\ builder # None
    /\ \E b \in BOOLEAN :
        /\ MayCall("content_available", b)
        /\ Returned("content_available", b, content_available(builder[1], b))

CallDelayWhileIdle ==
    /\ builder # None
    /\ \E b \in BOOLEAN :
        /\ MayCall("delay_while_idle", b)
        /\ Returned("delay_while_idle", b, delay_while_idle(builder[1], b))

CallTimeToLive ==
    /\ builder # None
    /\ \E seconds \in TimesToLive :
        /\ MayCall("time_to_live", seconds)
        /\ Returned("time_to_live", seconds, time_to_live(builder[1], seconds))

CallRestrictedPackageName ==
    /\ builder # None
    /\ \E name \in PackageNames :
        /\ MayCall("restricted_package_name", name)
        /\ Returned("restricted_package_name", name,
                    restricted_package_name(builder[1], name))

CallData ==
    /\ builder # None
    /\ \E d \in DataInputs :
        /\ MayCall("data", d)
        /\ LET r == data(builder[1], d)
           IN  IF r.ok
               THEN Returned("data", d, r.self)
               ELSE /\ builder' = Some(r.self)
                    /\ ret' = r.error
                    /\ overwrote' = FALSE
                    /\ calls' = calls + 1
                    /\ UNCHANGED <<request, wire, result, sends, ctor, given>>

CallNotification ==
    /\ builder # None
    /\ \E n \in Notifications :
        /\ MayCall("notification", n)
        /\ Returned("notification", n, notification(builder[1], n))

CallMutableContent ==
    /\ builder # None
    /\ \E b \in BOOLEAN :
        /\ MayCall("mutable_content", b)
        /\ Returned("mutable_content", b, mutable_content(builder[1], b))

CallFinalize ==
    /\ builder # None
    /\ LET r == finalize(builder[1])
       IN  /\ request' = Some(r.request)
           /\ builder' = r.self
    /\ UNCHANGED <<ret, wire, result, sends, ctor, given, overwrote, calls>>

\* client.send(request): the request is passed by value
CallSend ==
    /\ request # None
    /\ \E response \in Responses :
        LET r == send(request[1], response)
        IN  /\ wire' = Some(r.posted)
            /\ result' = Some(r.result)
    /\ request' = None
    /\ sends' = sends + 1
    /\ UNCHANGED <<builder, ret, ctor, given, overwrote, calls>>

Next ==
    \/ CallNew
    \/ CallNewMulti
    \/ CallRegistrationIds
    \/ CallCollapseKey
    \/ CallPriority
    \/ CallContentAvailable
    \/ CallDelayWhileIdle
    \/ CallTimeToLive
    \/ CallRestrictedPackageName
    \/ CallData
    \/ CallNotification
    \/ CallMutableContent
    \/ CallFinalize
    \/ CallSend

Spec == Init /\ [][Next]_vars

----------------------------------------------------------------------------
(* What the properties are stated in *)

SetterFields == MessageFields \ {"topic"}

\* the fields stored by the constructor or by a setter call that returned Ok
ExplicitlySet == {f \in MessageFields : given[f] # None}

EmptyObject == [k \in {} |-> k]

\* the JSON value the wire format prescribes for an argument of field f
ExpectedJson(f, arg) ==
    CASE f = "priority" -> (IF arg = "High" THEN "high" ELSE "normal")
      [] f = "data" ->
            (IF arg = CustomData THEN [foo |-> "bar", bar |-> FALSE]
                                 ELSE [message |-> "Howdy!"])
      [] f = "notification" ->
            (IF arg = EmptyNotification
             THEN EmptyObject
             ELSE [title |-> "Hey!", body |-> "Do you want to catch up later?"])
      [] OTHER -> arg

\* a stored field value as plain data (Cow<str> as its string)
Plain(f, v) ==
    IF f = "registration_ids" THEN [i \in 1..Len(v) |-> as_str(v[i])] ELSE v

\* what a message field holds once an argument was stored for it
ExpectedStored(f, arg) == IF f = "data" THEN ExpectedJson(f, arg) ELSE arg

\* the serialized bodies in existence: of the finalized request, and on the wire
Bodies ==
    (IF request # None THEN {SerializeBody(request[1].body)} ELSE {})
        \cup (IF wire # None THEN {wire[1]} ELSE {})

\* the messages in existence: the builder's and the finalized request's
Messages ==
    (IF builder # None THEN {builder[1].message} ELSE {})
        \cup (IF request # None THEN {request[1].body.message} ELSE {})

----------------------------------------------------------------------------
(* C1: a message field that was never explicitly set, by the constructor  *)
(* or by a setter, is absent from the serialized JSON of the body: its    *)
(* key does not appear, so it is not emitted as null either.              *)
C1_UnsetFieldsAbsent ==
    \A j \in Bodies :
        \A f \in MessageFields : given[f] = None => f \notin DOMAIN j.message

C1_Witness ==
    /\ request # None
    /\ given["collapse_key"] # None
    /\ given["priority"] = None
    /\ "collapse_key" \in DOMAIN SerializeBody(request[1].body).message
    /\ "priority" \notin DOMAIN SerializeBody(request[1].body).message

(* C2: the serialized body has exactly the two top-level keys             *)
(* validate_only and message; the keys of message are exactly the fields  *)
(* explicitly set, each with the value last given for it; the full        *)
(* message of the test suite serializes to the object the test expects.   *)
C2_WireBodyIsWhatWasSet ==
    \A j \in Bodies :
        /\ DOMAIN j = {"validate_only", "message"}
        /\ DOMAIN j.message = ExplicitlySet
        /\ \A f \in ExplicitlySet : j.message[f] = ExpectedJson(f, given[f][1])
        /\ (InFullMessageTest /\ calls = Len(FullMessageTest)) =>
                j = [validate_only |-> FALSE,
                     message |-> [topic |-> "token",
                                  registration_ids |-> <<"one", "two">>,
                                  collapse_key |-> "foo",
                                  priority |-> "high",
                                  content_available |-> FALSE,
                                  delay_while_idle |-> TRUE,
                                  time_to_live |-> 420,
                                  restricted_package_name |-> "pkg",
                                  notification |-> EmptyObject]]

C2_Witness ==
    /\ request # None
    /\ InFullMessageTest
    /\ calls = Len(FullMessageTest)
    /\ DOMAIN SerializeBody(request[1].body).message =
            {"topic", "registration_ids", "collapse_key", "priority",
             "content_available", "delay_while_idle", "time_to_live",
             "restricted_package_name", "notification"}

(* C3, as claimed: topic and registration_ids are never both present in   *)
(* the finalized message.                                                 *)
C3_NeverBothTargets ==
    request # None =>
        ~(/\ request[1].body.message["topic"] # None
          /\ request[1].body.message["registration_ids"] # None)

(* C3, amended: right after construction exactly one of topic and         *)
(* registration_ids is present; a message made through new_multi never    *)
(* has a topic; a message has both exactly when it was made through new   *)
(* and the registration_ids setter was called.                            *)
C3_BothTargetsOnlyByNewThenSetter ==
    \A m \in Messages :
        /\ calls = 0 => (m["topic"] = None) # (m["registration_ids"] = None)
        /\ ctor[1].kind = "new_multi" => m["topic"] = None
        /\ (m["topic"] # None /\ m["registration_ids"] # None)
                <=> (ctor[1].kind = "new" /\ given["registration_ids"] # None)

C3_Witness ==
    /\ request # None
    /\ ctor[1].kind = "new"
    /\ request[1].body.message["topic"] = Some("token")
    /\ request[1].body.message["registration_ids"] # None
    /\ Plain("registration_ids", request[1].body.message["registration_ids"][1])
            = <<"one", "two">>

(* C4: validate_only of the finalized body is false when the constructor  *)
(* was given None and b when it was given Some(b), for both constructors  *)
(* and whatever setters were called.                                      *)
C4_ValidateOnlyDefault ==
    /\ request # None =>
            request[1].body.validate_only =
                (IF ctor[1].validate_only = None THEN FALSE
                                                 ELSE ctor[1].validate_only[1])
    /\ wire # None =>
            wire[1].validate_only =
                (IF ctor[1].validate_only = None THEN FALSE
                                                 ELSE ctor[1].validate_only[1])

C4_Witness ==
    /\ request # None
    /\ calls = MaxCalls
    /\ ctor[1].kind = "new_multi"
    /\ ctor[1].validate_only = None
    /\ request[1].body.validate_only = FALSE

(* C5: new yields a builder whose topic is the token and whose other      *)
(* fields are all absent; new_multi yields a builder whose                *)
(* registration_ids is the given sequence, same elements in the same      *)
(* order, and whose other fields are all absent.                          *)
C5_ConstructorsSetOneTarget ==
    (builder # None /\ calls = 0) =>
        LET m == builder[1].message
        IN  /\ builder[1].api_key = ApiKey
            /\ builder[1].project = Project
            /\ builder[1].validate_only = ctor[1].validate_only
            /\ ctor[1].kind = "new" =>
                    /\ m["topic"] = Some(given["topic"][1])
                    /\ \A f \in MessageFields \ {"topic"} : m[f] = None
            /\ ctor[1].kind = "new_multi" =>
                    /\ m["registration_ids"] # None
                    /\ Len(m["registration_ids"][1]) = Len(given["registration_ids"][1])
                    /\ \A i \in 1..Len(given["registration_ids"][1]) :
                            as_str(m["registration_ids"][1][i])
                                = given["registration_ids"][1][i]
                    /\ \A f \in MessageFields \ {"registration_ids"} : m[f] = None

C5_Witness ==
    /\ builder # None
    /\ calls = 0
    /\ ctor[1].kind = "new_multi"
    /\ given["registration_ids"] = Some(<<"one", "two">>)
    /\ Len(builder[1].message["registration_ids"][1]) = 2

(* C6: a field written by its setter, once or several times, holds the    *)
(* value of the last call and nothing of the earlier ones.                *)
C6_LastWriteWins ==
    \A m \in Messages :
        \A f \in SetterFields :
            given[f] # None =>
                /\ m[f] # None
                /\ Plain(f, m[f][1]) = ExpectedStored(f, given[f][1])

C6_Witness ==
    /\ builder # None
    /\ calls = 2
    /\ overwrote
    /\ ExplicitlySet = {"topic", "collapse_key"}
    /\ given["collapse_key"] = Some("key")
    /\ builder[1].message["collapse_key"] = Some("key")

(* C7: a data call that fails returns the serialization error and leaves  *)
(* the builder as it was: every message field, a data value stored        *)
(* earlier included, and api_key, project and validate_only.              *)
C7_FailedDataLeavesBuilder ==
    [][(calls' = calls + 1 /\ ret' # "Ok") =>
            /\ ret' \in {"key must be a string", "boom"}
            /\ builder' = builder
            /\ request' = request]_vars

C7_Witness ==
    /\ builder # None
    /\ calls = 2
    /\ ret = "key must be a string"
    /\ given["data"] = Some(CustomData)
    /\ builder[1].message["data"] = Some([foo |-> "bar", bar |-> FALSE])

(* C8: finalize succeeds in every state of the builder, and the request   *)
(* it returns carries the api_key and project of the constructor call and *)
(* a message whose eleven fields equal the builder's at that moment.      *)
C8_FinalizeCopies ==
    [][/\ builder # None => ENABLED CallFinalize
       /\ (builder # None /\ request = None /\ request' # None) =>
            /\ request'[1].api_key = ctor[1].api_key
            /\ request'[1].project = ctor[1].project
            /\ DOMAIN request'[1].body.message = MessageFields
            /\ \A f \in MessageFields :
                    request'[1].body.message[f] = builder[1].message[f]]_vars

C8_Witness ==
    /\ request # None
    /\ calls = MaxCalls
    /\ ret = "boom"
    /\ request[1].api_key = "api_key"
    /\ request[1].project = "project"
    /\ request[1].body.message["data"] = Some([message |-> "Howdy!"])
    /\ request[1].body.message["topic"] = Some("token")

(* C9: open, then finalized, and never open again: once finalize was      *)
(* called the builder is gone, no setter call is made, the finalized      *)
(* request does not change, and it is consumed by at most one send.       *)
C9_FinalizedStaysFinalized ==
    [][/\ (ctor # None /\ builder = None) => builder' = None
       /\ (request # None \/ sends > 0) =>
            /\ builder' = None
            /\ calls' = calls
            /\ given' = given
       /\ request # None => (request' = request \/ (request' = None /\ sends' = 1))
       /\ sends > 0 => (request' = None /\ sends' = sends)]_vars

C9_Witness ==
    /\ builder = None
    /\ request = None
    /\ sends = 1
    /\ calls = MaxCalls
    /\ result = Some(<<"HttpError", 500, "error">>)

(* C10: a setter call changes its own field only: the other message       *)
(* fields, api_key, project and validate_only stay as they were, no       *)
(* present field becomes absent, and topic is what the constructor made   *)
(* it (the token for new, absent for new_multi).                          *)
C10_SettersChangeOwnFieldOnly ==
    [][/\ calls' = calls + 1 =>
            /\ builder' # None
            /\ builder'[1].api_key = builder[1].api_key
            /\ builder'[1].project = builder[1].project
            /\ builder'[1].validate_only = builder[1].validate_only
            /\ \E f \in SetterFields :
                    /\ \A g \in MessageFields \ {f} :
                            /\ builder'[1].message[g] = builder[1].message[g]
                            /\ given'[g] = given[g]
            /\ \A g \in MessageFields :
                    builder[1].message[g] # None => builder'[1].message[g] # None
       /\ \A m \in Messages' :
            m["topic"] = (IF ctor'[1].kind = "new" THEN Some(Token) ELSE None)]_vars

C10_Witness ==
    /\ request # None
    /\ calls = MaxCalls
    /\ ctor[1].kind = "new"
    /\ ExplicitlySet = {"topic", "mutable_content", "content_available"}
    /\ request[1].body.message["topic"] = Some("token")
    /\ request[1].body.message["mutable_content"] = Some(TRUE)
    /\ request[1].body.message["content_available"] = Some(FALSE)

====
